---- MODULE Spec2Model ----
(***************************************************************************)
(* Sierra -> CASM compilation driver of cairo-lang-sierra-to-casm          *)
(* (compiler.rs): compile, ConstsInfo::new, extract_const_value,           *)
(* check_basic_structure, is_branch_align and CairoProgram::assemble_ex.   *)
(***************************************************************************)
EXTENDS Integers, Sequences, FiniteSets, TLC

\* ------------------------------------------------------------------ bounds
\* Largest number of statements of a program.
MaxStmts == 3
\* Largest configured max_bytecode_size.
MaxBytecodeSize == 7
\* Largest number of libfunc declarations read by the const-segment builder at the
\* end of compile.
MaxDecls == 2
\* Largest number of libfunc ids handed to a direct ConstsInfo::new call.
MaxIds == 3
\* Largest number of arguments and of branches of an invocation handed to a direct
\* check_basic_structure call.
MaxArgs == 2
MaxBranches == 2
\* Largest number of instructions and of const segments of a CairoProgram handed
\* to a direct assemble_ex call.
MaxInstrs == 2
MaxSegments == 2

\* ------------------------------------------------------------- results
Running == [tag |-> "Running", kind |-> "", a |-> 0, b |-> 0]
Ok == [tag |-> "Ok", kind |-> "", a |-> 0, b |-> 0]
Err(kind, a, b) == [tag |-> "Err", kind |-> kind, a |-> a, b |-> b]
Panic(kind) == [tag |-> "Panic", kind |-> kind, a |-> 0, b |-> 0]

\* ------------------------------------------------------------- program
VarIds == {0, 1}

Fallthrough == [kind |-> "Fallthrough", idx |-> 0]
StatementTarget(t) == [kind |-> "Statement", idx |-> t]
BranchInfo(target, results) == [target |-> target, results |-> results]
Return(args) ==
    [kind |-> "Return", libfunc_id |-> [name |-> "", ty |-> "", seg |-> 0],
     args |-> args, branches |-> <<>>]
Invocation(id, args, branches) ==
    [kind |-> "Invocation", libfunc_id |-> id, args |-> args, branches |-> branches]

LibfuncId(name) == [name |-> name, ty |-> "", seg |-> 0]
AsBoxId(ty, seg) == [name |-> "const_as_box", ty |-> ty, seg |-> seg]

\* StatementIdx::next
NextIdx(statement_idx, target) ==
    IF target.kind = "Fallthrough" THEN statement_idx + 1 ELSE target.idx

\* ---------------------------------------------------------------- types
\* Concrete types of the registry: kind, and for a Const type its inner type and
\* inner data (generic args).
TypeArg(ty) == [kind |-> "Type", ty |-> ty, value |-> 0]
ValueArg(v) == [kind |-> "Value", ty |-> "", value |-> v]

GetType(ty) ==
    CASE ty = "felt252" -> [kind |-> "Felt", inner_ty |-> "", inner_data |-> <<>>, variants |-> <<>>]
      [] ty = "Unit" -> [kind |-> "Struct", inner_ty |-> "", inner_data |-> <<>>, variants |-> <<>>]
      [] ty = "Pair" -> [kind |-> "Struct", inner_ty |-> "", inner_data |-> <<>>, variants |-> <<>>]
      [] ty = "Opt" -> [kind |-> "Enum", inner_ty |-> "", inner_data |-> <<>>,
                        variants |-> <<"Unit", "felt252">>]
      [] ty = "C7" -> [kind |-> "Const", inner_ty |-> "felt252",
                       inner_data |-> <<ValueArg(7)>>, variants |-> <<>>]
      [] ty = "C11" -> [kind |-> "Const", inner_ty |-> "felt252",
                        inner_data |-> <<ValueArg(11)>>, variants |-> <<>>]
      [] ty = "CUnit" -> [kind |-> "Const", inner_ty |-> "Unit",
                          inner_data |-> <<>>, variants |-> <<>>]
      [] ty = "CPair" -> [kind |-> "Const", inner_ty |-> "Pair",
                          inner_data |-> <<TypeArg("C7"), TypeArg("C11")>>, variants |-> <<>>]
      [] ty = "CSome" -> [kind |-> "Const", inner_ty |-> "Opt",
                          inner_data |-> <<ValueArg(1), TypeArg("C11")>>, variants |-> <<>>]
      [] ty = "CNone" -> [kind |-> "Const", inner_ty |-> "Opt",
                          inner_data |-> <<ValueArg(0), TypeArg("CUnit")>>, variants |-> <<>>]
      [] ty = "CBadPrim" -> [kind |-> "Const", inner_ty |-> "felt252",
                             inner_data |-> <<TypeArg("C7")>>, variants |-> <<>>]
      [] ty = "CBadStruct" -> [kind |-> "Const", inner_ty |-> "Pair",
                               inner_data |-> <<TypeArg("C7"), ValueArg(11)>>, variants |-> <<>>]
      [] ty = "CBadEnum" -> [kind |-> "Const", inner_ty |-> "Opt",
                             inner_data |-> <<ValueArg(1)>>, variants |-> <<>>]
      [] ty = "CNested" -> [kind |-> "Const", inner_ty |-> "Pair",
                            inner_data |-> <<TypeArg("C7"), TypeArg("felt252")>>, variants |-> <<>>]

\* TypeSizeMap
TypeSize(ty) ==
    CASE ty = "Unit" -> 0
      [] ty = "Pair" -> 2
      [] ty = "Opt" -> 2
      [] OTHER -> 1

\* invocations::enm::get_variant_selector; -1 stands for its error.
GetVariantSelector(num_variants, variant_idx) ==
    IF variant_idx >= num_variants THEN -1
    ELSE IF num_variants <= 2 THEN variant_idx
    ELSE (num_variants - variant_idx) * 2 - 1

RECURSIVE Zeros(_)
Zeros(n) == IF n <= 0 THEN <<>> ELSE <<0>> \o Zeros(n - 1)

RECURSIVE Reverse(_)
Reverse(s) == IF s = <<>> THEN <<>> ELSE Reverse(Tail(s)) \o <<Head(s)>>

\* extract_const_value: the work-stack loop. The stack's top is its last element.
RECURSIVE ExtractLoop(_, _)
ExtractLoop(values, types_stack) ==
    IF types_stack = <<>> THEN [tag |-> "Ok", kind |-> "", values |-> values]
    ELSE
      LET ty == types_stack[Len(types_stack)]
          rest == SubSeq(types_stack, 1, Len(types_stack) - 1)
          const_type == GetType(ty)
      IN IF const_type.kind # "Const"
         THEN [tag |-> "Err", kind |-> "UnsupportedConstType", values |-> <<>>]
         ELSE
           LET inner == GetType(const_type.inner_ty)
               data == const_type.inner_data
           IN CASE inner.kind = "Struct" ->
                     IF \E k \in 1..Len(data) : data[k].kind # "Type"
                     THEN [tag |-> "Err", kind |-> "ConstDataMismatch", values |-> <<>>]
                     ELSE ExtractLoop(values,
                                      rest \o Reverse([k \in 1..Len(data) |-> data[k].ty]))
                [] inner.kind = "Enum" ->
                     IF Len(data) = 2 /\ data[1].kind = "Value" /\ data[2].kind = "Type"
                     THEN LET variant_index == data[1].value
                              selector == GetVariantSelector(Len(inner.variants), variant_index)
                          IN IF variant_index < 0 \/ selector < 0
                             THEN [tag |-> "Panic", kind |-> "unwrap", values |-> <<>>]
                             ELSE ExtractLoop(
                                    values \o <<selector>>
                                      \o Zeros(TypeSize(const_type.inner_ty)
                                               - TypeSize(inner.variants[variant_index + 1]) - 1),
                                    rest \o <<data[2].ty>>)
                     ELSE [tag |-> "Err", kind |-> "ConstDataMismatch", values |-> <<>>]
                [] OTHER ->
                     IF Len(data) = 1 /\ data[1].kind = "Value"
                     THEN ExtractLoop(values \o <<data[1].value>>, rest)
                     ELSE [tag |-> "Err", kind |-> "ConstDataMismatch", values |-> <<>>]

extract_const_value(ty) == ExtractLoop(<<>>, <<ty>>)

\* ------------------------------------------------------------- registry
\* ProgramRegistry::get_libfunc: the signature of a concrete libfunc.
\* fallthrough is the branch index, -1 for None.
Signature(params, outputs, fallthrough, ap_change) ==
    [params |-> params, outputs |-> outputs, fallthrough |-> fallthrough,
     ap_change |-> ap_change]

GetLibfunc(id) ==
    CASE id.name = "branch_align" -> Signature(0, <<0>>, 0, <<"BranchAlign">>)
      [] id.name = "array_new" -> Signature(0, <<1>>, 0, <<"Known">>)
      [] id.name = "drop" -> Signature(1, <<0>>, 0, <<"Known">>)
      [] id.name = "dup" -> Signature(1, <<2>>, 0, <<"Known">>)
      [] id.name = "test_zero" -> Signature(1, <<0, 0>>, 0, <<"Known", "Known">>)
      [] id.name = "jump" -> Signature(0, <<0>>, -1, <<"Known">>)
      [] id.name = "const_as_box" -> Signature(0, <<1>>, 0, <<"Known">>)

\* CoreConcreteLibfunc::Const(ConstConcreteLibfunc::AsBox(_))
IsAsBox(id) == id.name = "const_as_box"

\* ----------------------------------------------------------- ConstsInfo
NoOffsets == [t \in {} |-> 0]
DefaultSegment(id) ==
    [id |-> id, values |-> <<>>, const_offset |-> NoOffsets, segment_offset |-> 0]
DefaultConstsInfo == [segments |-> <<>>, total_segments_size |-> 0]

SegmentKeys(segments) == [k \in 1..Len(segments) |-> segments[k].id]

\* OrderedHashMap::entry(segment_id).or_default(): existing keys keep their place,
\* a new key goes last.
EntryOrDefault(segments, segment_id) ==
    IF \E k \in 1..Len(segments) : segments[k].id = segment_id
    THEN segments
    ELSE Append(segments, DefaultSegment(segment_id))

SegmentPos(segments, segment_id) ==
    CHOOSE k \in 1..Len(segments) : segments[k].id = segment_id

\* UnorderedHashMap::insert
MapInsert(f, key, value) ==
    [t \in DOMAIN f \cup {key} |-> IF t = key THEN value ELSE f[t]]

\* The budget check without the segments' terminators.
ConstsBudgetExceeded_NoRets(segments_data_size, segments, const_segments_max_size) ==
    segments_data_size > const_segments_max_size

\* The budget check that follows each extend.
ConstsBudgetExceeded(segments_data_size, segments, const_segments_max_size) ==
    segments_data_size + Len(segments) > const_segments_max_size

\* An ordering check that only looks for holes.
SegmentsOutOfOrder_HolesOnly(segments) ==
    \E k \in 1..Len(segments) : segments[k].id >= Len(segments)

\* "Check that the segments were declared in order and without holes."
SegmentsOutOfOrder(segments) ==
    \E k \in 1..Len(segments) : (k - 1) # segments[k].id

\* The layout loop without the word of each segment's `ret`.
RECURSIVE LayoutSegments_NoRet(_, _)
LayoutSegments_NoRet(segments, k) ==
    IF k = 0 THEN [segments |-> segments, total_segments_size |-> 0]
    ELSE LET prev == LayoutSegments_NoRet(segments, k - 1)
         IN [segments |-> [prev.segments EXCEPT ![k].segment_offset =
                                                    prev.total_segments_size],
             total_segments_size |->
                 prev.total_segments_size + Len(segments[k].values)]

\* The final layout loop: the state after the first k segments.
RECURSIVE LayoutSegments(_, _)
LayoutSegments(segments, k) ==
    IF k = 0 THEN [segments |-> segments, total_segments_size |-> 0]
    ELSE LET prev == LayoutSegments(segments, k - 1)
         IN [segments |-> [prev.segments EXCEPT ![k].segment_offset =
                                                    prev.total_segments_size],
             total_segments_size |->
                 prev.total_segments_size + 1 + Len(segments[k].values)]

ConstsResult(tag, kind, info) == [tag |-> tag, kind |-> kind, info |-> info]

\* The scan of ConstsInfo::new over libfunc_ids, from position k on.
RECURSIVE ConstsScan(_, _, _, _, _)
ConstsScan(libfunc_ids, k, segments, segments_data_size, const_segments_max_size) ==
    IF k > Len(libfunc_ids)
    THEN IF SegmentsOutOfOrder(segments)
         THEN ConstsResult("Err", "ConstSegmentsOutOfOrder", DefaultConstsInfo)
         ELSE ConstsResult("Ok", "", LayoutSegments(segments, Len(segments)))
    ELSE
      LET as_box == libfunc_ids[k]
      IN IF ~IsAsBox(as_box)
         THEN ConstsScan(libfunc_ids, k + 1, segments, segments_data_size,
                         const_segments_max_size)
         ELSE
           LET with_entry == EntryOrDefault(segments, as_box.seg)
               pos == SegmentPos(with_entry, as_box.seg)
               const_data == extract_const_value(as_box.ty)
           IN IF const_data.tag # "Ok"
              THEN \* .unwrap() of an Err, or a panic inside the extraction
                   ConstsResult("Panic", const_data.kind, DefaultConstsInfo)
              ELSE
                LET size == segments_data_size + Len(const_data.values)
                    segment == with_entry[pos]
                    extended ==
                      [with_entry EXCEPT ![pos] =
                         [segment EXCEPT
                            !.const_offset = MapInsert(segment.const_offset, as_box.ty,
                                                       Len(segment.values)),
                            !.values = segment.values \o const_data.values]]
                IN IF ConstsBudgetExceeded(size, extended, const_segments_max_size)
                   THEN ConstsResult("Err", "CodeSizeLimitExceeded", DefaultConstsInfo)
                   ELSE ConstsScan(libfunc_ids, k + 1, extended, size,
                                   const_segments_max_size)

ConstsInfoNew(libfunc_ids, const_segments_max_size) ==
    ConstsScan(libfunc_ids, 1, <<>>, 0, const_segments_max_size)

\* --------------------------------------------------------- instructions
Instr(op, imm, hints) == [op |-> op, imm |-> imm, hints |-> hints]
RetInstr == Instr("ret", 0, <<>>)

\* InstructionBody::op_size: one word, two with an immediate.
OpSize(instruction) == IF instruction.op \in {"ret", "nop"} THEN 1 ELSE 2

RECURSIVE SumOpSize(_)
SumOpSize(instructions) ==
    IF instructions = <<>> THEN 0
    ELSE OpSize(Head(instructions)) + SumOpSize(Tail(instructions))

\* The first word of an encoded instruction.
OpWord(op) ==
    CASE op = "ret" -> 100
      [] op = "nop" -> 101
      [] op = "ap_add" -> 102
      [] op = "jmp" -> 103
      [] op = "jnz" -> 104
      [] op = "call" -> 105
      [] op = "add_imm" -> 106

\* Instruction::assemble().encode()
Encode(instruction) ==
    IF OpSize(instruction) = 1 THEN <<OpWord(instruction.op)>>
    ELSE <<OpWord(instruction.op), instruction.imm>>

\* ---------------------------------------------------------- relocations
Relocation(kind, idx, ty) == [kind |-> kind, idx |-> idx, ty |-> ty]
RelocationEntry(instruction_idx, relocation) ==
    [instruction_idx |-> instruction_idx, relocation |-> relocation]

\* invocations::compile_invocation: what the libfunc's emitter returns.
CompileInvocation(invocation, statement_idx) ==
    LET id == invocation.libfunc_id
        none == [instructions |-> <<>>, relocations |-> <<>>]
        code ==
          CASE id.name = "array_new" ->
                 [instructions |-> <<Instr("ap_add", 1, <<"alloc_segment">>)>>,
                  relocations |-> <<>>]
            [] id.name = "test_zero" ->
                 [instructions |-> <<Instr("jnz", 0, <<>>)>>,
                  relocations |->
                    <<RelocationEntry(0, Relocation("RelativeStatementId",
                        NextIdx(statement_idx, invocation.branches[2].target), ""))>>]
            [] id.name = "jump" ->
                 [instructions |-> <<Instr("jmp", 0, <<>>)>>,
                  relocations |->
                    <<RelocationEntry(0, Relocation("RelativeStatementId",
                        NextIdx(statement_idx, invocation.branches[1].target), ""))>>]
            [] id.name = "const_as_box" ->
                 [instructions |-> <<Instr("call", 0, <<>>), Instr("add_imm", 1, <<>>)>>,
                  relocations |->
                    <<RelocationEntry(0, Relocation("SegmentStart", id.seg, "")),
                      RelocationEntry(1, Relocation("ConstStart", id.seg, id.ty))>>]
            [] OTHER -> none
    IN [instructions |-> code.instructions, relocations |-> code.relocations,
        results |-> GetLibfunc(id).outputs]

\* ------------------------------------------------ check_basic_structure
ResultCounts(branches) == [k \in 1..Len(branches) |-> Len(branches[k].results)]

\* The fallthrough test made before the branch counts are known to match.
check_basic_structure_FallthroughFirst(statement_idx, invocation, libfunc) ==
    IF Len(invocation.args) # libfunc.params
    THEN Err("LibfuncInvocationMismatch", statement_idx, 0)
    ELSE IF libfunc.fallthrough >= 0
            /\ libfunc.fallthrough + 1 > Len(invocation.branches)
    THEN Panic("index out of bounds")
    ELSE IF libfunc.fallthrough >= 0
            /\ invocation.branches[libfunc.fallthrough + 1].target # Fallthrough
    THEN Err("LibfuncInvocationMismatch", statement_idx, 0)
    ELSE IF ResultCounts(invocation.branches) # libfunc.outputs
    THEN Err("LibfuncInvocationMismatch", statement_idx, 0)
    ELSE Ok

\* The three tests are evaluated left to right and stop at the first that fails
\* (the short-circuit ||); indexing branches past their end panics.
check_basic_structure(statement_idx, invocation, libfunc) ==
    IF Len(invocation.args) # libfunc.params
    THEN Err("LibfuncInvocationMismatch", statement_idx, 0)
    ELSE IF ResultCounts(invocation.branches) # libfunc.outputs
    THEN Err("LibfuncInvocationMismatch", statement_idx, 0)
    ELSE IF libfunc.fallthrough >= 0
    THEN IF libfunc.fallthrough + 1 > Len(invocation.branches)
         THEN Panic("index out of bounds")
         ELSE IF invocation.branches[libfunc.fallthrough + 1].target # Fallthrough
         THEN Err("LibfuncInvocationMismatch", statement_idx, 0)
         ELSE Ok
    ELSE Ok

\* ------------------------------------------------------ is_branch_align
is_branch_align(statement) ==
    /\ statement.kind = "Invocation"
    /\ Len(GetLibfunc(statement.libfunc_id).ap_change) = 1
    /\ GetLibfunc(statement.libfunc_id).ap_change[1] = "BranchAlign"

\* ---------------------------------------------------------- annotations
\* ProgramAnnotations: per statement, the environment (the variables bound
\* there) once some edge or a function entry has set it.
NoAnnotations == [set |-> FALSE, refs |-> {}]
Annotations(refs) == [set |-> TRUE, refs |-> refs]

SeqToSet(s) == {s[k] : k \in 1..Len(s)}

\* ProgramAnnotations::create: the function's entry statement holds its parameters.
CreateAnnotations(n, params) ==
    [k \in 1..n |-> IF k = 1 THEN Annotations(SeqToSet(params)) ELSE NoAnnotations]

\* get_annotations_after_take_args: every listed variable is removed, in order;
\* a statement without annotations or a missing variable is an error.
RECURSIVE TakeArgs(_, _)
TakeArgs(refs, args) ==
    IF args = <<>> THEN [ok |-> TRUE, refs |-> refs]
    ELSE IF Head(args) \notin refs THEN [ok |-> FALSE, refs |-> refs]
    ELSE TakeArgs(refs \ {Head(args)}, Tail(args))

GetAnnotationsAfterTakeArgs(ann, statement_idx, args) ==
    IF ~ann[statement_idx + 1].set THEN [ok |-> FALSE, refs |-> {}]
    ELSE TakeArgs(ann[statement_idx + 1].refs, args)

\* put_results: a result variable must not be bound already.
RECURSIVE PutResults(_, _)
PutResults(refs, results) ==
    IF results = <<>> THEN [ok |-> TRUE, refs |-> refs]
    ELSE IF Head(results) \in refs THEN [ok |-> FALSE, refs |-> refs]
    ELSE PutResults(refs \cup {Head(results)}, Tail(results))

\* propagate_annotations: the first reach of dst records its environment, a later
\* one must match it.
PropagateAnnotations(ann, dst, refs, branch_info) ==
    LET put == PutResults(refs, branch_info.results)
    IN IF ~put.ok \/ dst + 1 > Len(ann) THEN [ok |-> FALSE, ann |-> ann]
       ELSE IF ~ann[dst + 1].set
       THEN [ok |-> TRUE, ann |-> [ann EXCEPT ![dst + 1] = Annotations(put.refs)]]
       ELSE [ok |-> ann[dst + 1].refs = put.refs, ann |-> ann]

\* ---------------------------------------------------------------- state
VARIABLES
    statements,             \* program.statements
    max_bytecode_size,      \* config.max_bytecode_size
    libfunc_declarations,   \* the ids of program.libfunc_declarations
    pc,                     \* where compile is
    statement_id,           \* the loop's statement index
    program_offset,
    instructions,
    relocations,
    sierra_statement_info,
    annotations,            \* program_annotations
    const_segments_max_size,
    consts_info,
    calls,                  \* the collaborators called so far, in order
    result,                 \* what compile returns
    asm_header, asm_footer, \* the arguments of assemble_ex
    assembled,              \* what assemble_ex returns
    cbs_input,              \* the arguments of a direct check_basic_structure call
    cbs_result

vars == <<statements, max_bytecode_size, libfunc_declarations, pc,
          statement_id, program_offset, instructions, relocations,
          sierra_statement_info, annotations, const_segments_max_size, consts_info,
          calls, result, asm_header, asm_footer, assembled, cbs_input, cbs_result>>

Call(fn, a, b) == [fn |-> fn, a |-> a, b |-> b]

DebugInfo(code_offset, instruction_idx, kind, ref_values) ==
    [code_offset |-> code_offset, instruction_idx |-> instruction_idx,
     kind |-> kind, ref_values |-> ref_values]

\* ------------------------------------------------------------- compile
\* A size check that also rejects a code size equal to the limit.
CodeSizeExceeded_Inclusive(offset, max_size) == offset >= max_size

\* The size check at the head of the statement loop.
CodeSizeExceeded(offset, max_size) == offset > max_size

\* usize::checked_sub; -1 stands for None.
CheckedSub(a, b) == IF b > a THEN -1 ELSE a - b

\* The Return arm's checks with the dangling test made last.
ReturnChecks_DanglingLast(statement_idx, remaining, var_id, ext, log) ==
    LET log1 == Append(log, Call("validate_final_annotations", statement_idx, 0))
        log2 == Append(log1, Call("check_references_on_stack", statement_idx, 0))
    IN IF ext = "validate_final_fails"
       THEN [result |-> Err("AnnotationError", statement_idx, 0), calls |-> log1]
       ELSE IF ext = "not_on_stack"
       THEN [result |-> Err("ReturnArgumentsNotOnStack", statement_idx, 0),
             calls |-> log2]
       ELSE IF ext = "invocation_error"
       THEN [result |-> Err("InvocationError", statement_idx, 0), calls |-> log2]
       ELSE IF remaining # {}
       THEN [result |-> Err("DanglingReferences", statement_idx, var_id),
             calls |-> log2]
       ELSE [result |-> Running, calls |-> log2]

\* The checks of the Return arm that follow take_args. ext is the answer of the
\* collaborators: validate_final_annotations and check_references_on_stack.
ReturnChecks(statement_idx, remaining, var_id, ext, log) ==
    IF remaining # {}
    THEN [result |-> Err("DanglingReferences", statement_idx, var_id), calls |-> log]
    ELSE
      LET log1 == Append(log, Call("validate_final_annotations", statement_idx, 0))
          log2 == Append(log1, Call("check_references_on_stack", statement_idx, 0))
      IN IF ext = "validate_final_fails"
         THEN [result |-> Err("AnnotationError", statement_idx, 0), calls |-> log1]
         ELSE IF ext = "not_on_stack"
         THEN [result |-> Err("ReturnArgumentsNotOnStack", statement_idx, 0),
               calls |-> log2]
         ELSE IF ext = "invocation_error"
         THEN [result |-> Err("InvocationError", statement_idx, 0), calls |-> log2]
         ELSE [result |-> Running, calls |-> log2]

\* The debug entry pushed by the Return arm, from the state after the ret
\* instruction was pushed.
ReturnDebugInfo(offset, instrs, return_refs) ==
    DebugInfo(offset, Len(instrs), "Return", return_refs)

\* The debug entry pushed by the Invocation arm, from the state after the
\* invocation's instructions were appended.
InvokeDebugInfo(offset, instrs, invoke_refs) ==
    DebugInfo(offset, Len(instrs), "Invoke", invoke_refs)

\* An end marker that names the last instruction instead of their number.
EndMarkerInfo_LastIndex(offset, instrs) ==
    DebugInfo(offset, Len(instrs) - 1, "EndMarker", <<>>)

\* The entry pushed after the loop.
EndMarkerInfo(offset, instrs) == DebugInfo(offset, Len(instrs), "EndMarker", <<>>)

\* The relocations of an invocation appended with their local indices.
RebaseRelocations_NoBase(entries, base) ==
    [k \in 1..Len(entries) |->
        RelocationEntry(entries[k].instruction_idx, entries[k].relocation)]

\* The relocations of an invocation, rebased on the instructions emitted so far.
RebaseRelocations(entries, base) ==
    [k \in 1..Len(entries) |->
        RelocationEntry(base + entries[k].instruction_idx, entries[k].relocation)]

\* The branch-align test with its negation lost.
MissingBranchAlign_Inverted(branching_libfunc, destination_statement_idx) ==
    branching_libfunc /\ is_branch_align(statements[destination_statement_idx + 1])

\* The test made for each branch before its environment is propagated.
MissingBranchAlign(branching_libfunc, destination_statement_idx) ==
    branching_libfunc /\ ~is_branch_align(statements[destination_statement_idx + 1])

\* The loop over zip_eq(&invocation.branches, compiled_invocation.results), from
\* branch b on; st is [result, annotations, calls].
RECURSIVE BranchLoop(_, _, _, _, _, _)
BranchLoop(statement_idx, invocation, results, b, refs, st) ==
    IF b > Len(invocation.branches) /\ b > Len(results) THEN st
    ELSE IF b > Len(invocation.branches) \/ b > Len(results)
    THEN [st EXCEPT !.result = Panic("zip_eq")]
    ELSE
      LET branch_info == invocation.branches[b]
          branching_libfunc == Len(results) > 1
          dst == NextIdx(statement_idx, branch_info.target)
      IN IF branching_libfunc /\ dst >= Len(statements)
         THEN [st EXCEPT !.result = Panic("index out of bounds")]
         ELSE IF MissingBranchAlign(branching_libfunc, dst)
         THEN [st EXCEPT !.result = Err("ExpectedBranchAlign", statement_idx, dst)]
         ELSE
           LET prop == PropagateAnnotations(st.annotations, dst, refs, branch_info)
               log == Append(st.calls, Call("propagate_annotations", statement_idx, dst))
           IN IF ~prop.ok
              THEN [st EXCEPT !.result = Err("AnnotationError", statement_idx, 0),
                              !.calls = log]
              ELSE BranchLoop(statement_idx, invocation, results, b + 1, refs,
                              [st EXCEPT !.annotations = prop.ann, !.calls = log])

ReturnOutcomes == {"ok", "validate_final_fails", "not_on_stack", "invocation_error"}
InvocationOutcomes == {"ok", "types_mismatch", "emitter_error"}

\* compile returns Err: nothing of the pass is handed back.
Fail(error) == result' = error /\ pc' = "done"

inputs == <<statements, max_bytecode_size>>
later == <<const_segments_max_size, consts_info, libfunc_declarations, asm_header,
           asm_footer, assembled, cbs_input, cbs_result>>

\* The loop body when the code size exceeds the limit.
StmtSizeLimit ==
    /\ pc = "loop"
    /\ statement_id < Len(statements)
    /\ CodeSizeExceeded(program_offset, max_bytecode_size)
    /\ Fail(Err("CodeSizeLimitExceeded", 0, 0))
    /\ UNCHANGED <<inputs, later, statement_id, program_offset, instructions,
                   relocations, sierra_statement_info, annotations, calls>>

\* The loop body for Statement::Return.
StmtReturn ==
    /\ pc = "loop"
    /\ statement_id < Len(statements)
    /\ ~CodeSizeExceeded(program_offset, max_bytecode_size)
    /\ statements[statement_id + 1].kind = "Return"
    /\ LET ref_ids == statements[statement_id + 1].args
           taken == GetAnnotationsAfterTakeArgs(annotations, statement_id, ref_ids)
       IN IF ~taken.ok
          THEN /\ Fail(Err("AnnotationError", statement_id, 0))
               /\ UNCHANGED <<statement_id, program_offset, instructions,
                              sierra_statement_info, calls>>
          ELSE \E ext \in ReturnOutcomes :
               \E var_id \in (IF taken.refs = {} THEN {0} ELSE taken.refs) :
                 LET chk == ReturnChecks(statement_id, taken.refs, var_id, ext, calls)
                     offset == program_offset + OpSize(RetInstr)
                     instrs == Append(instructions, RetInstr)
                 IN IF chk.result.tag # "Running"
                    THEN /\ Fail(chk.result)
                         /\ calls' = chk.calls
                         /\ UNCHANGED <<statement_id, program_offset, instructions,
                                        sierra_statement_info>>
                    ELSE /\ program_offset' = offset
                         /\ instructions' = instrs
                         /\ sierra_statement_info' =
                              Append(sierra_statement_info,
                                     ReturnDebugInfo(offset, instrs, ref_ids))
                         /\ calls' = chk.calls
                         /\ statement_id' = statement_id + 1
                         /\ UNCHANGED <<pc, result>>
    /\ UNCHANGED <<inputs, later, relocations, annotations>>

\* The loop body for Statement::Invocation.
StmtInvocation ==
    /\ pc = "loop"
    /\ statement_id < Len(statements)
    /\ ~CodeSizeExceeded(program_offset, max_bytecode_size)
    /\ statements[statement_id + 1].kind = "Invocation"
    /\ LET invocation == statements[statement_id + 1]
           taken == GetAnnotationsAfterTakeArgs(annotations, statement_id,
                                                invocation.args)
           libfunc == GetLibfunc(invocation.libfunc_id)
           structure == check_basic_structure(statement_id, invocation, libfunc)
       IN IF ~taken.ok \/ structure.tag # "Ok"
          THEN /\ Fail(IF ~taken.ok THEN Err("AnnotationError", statement_id, 0)
                       ELSE structure)
               /\ UNCHANGED <<statement_id, program_offset, instructions, relocations,
                              sierra_statement_info, annotations, calls>>
          ELSE \E ext \in InvocationOutcomes :
               IF ext # "ok"
               THEN /\ Fail(IF ext = "types_mismatch"
                            THEN Err("AnnotationError", statement_id, 0)
                            ELSE Err("InvocationError", statement_id, 0))
                    /\ UNCHANGED <<statement_id, program_offset, instructions,
                                   relocations, sierra_statement_info, annotations,
                                   calls>>
               ELSE
                 LET compiled == CompileInvocation(invocation, statement_id)
                     offset == program_offset + SumOpSize(compiled.instructions)
                     instrs == instructions \o compiled.instructions
                     loop == BranchLoop(statement_id, invocation, compiled.results, 1,
                                        taken.refs,
                                        [result |-> Running, annotations |-> annotations,
                                         calls |-> calls])
                 IN /\ program_offset' = offset
                    /\ relocations' = relocations \o
                         RebaseRelocations(compiled.relocations, Len(instructions))
                    /\ instructions' = instrs
                    /\ sierra_statement_info' =
                         Append(sierra_statement_info,
                                InvokeDebugInfo(offset, instrs, invocation.args))
                    /\ annotations' = loop.annotations
                    /\ calls' = loop.calls
                    /\ IF loop.result.tag = "Running"
                       THEN statement_id' = statement_id + 1 /\ UNCHANGED <<pc, result>>
                       ELSE Fail(loop.result) /\ UNCHANGED statement_id
    /\ UNCHANGED <<inputs, later>>

\* After the loop: the end marker, then the budget left for the const segments.
EndOfPass ==
    /\ pc = "loop"
    /\ statement_id = Len(statements)
    /\ sierra_statement_info' =
         Append(sierra_statement_info, EndMarkerInfo(program_offset, instructions))
    /\ LET left == CheckedSub(max_bytecode_size, program_offset)
       IN IF left < 0
          THEN Fail(Err("CodeSizeLimitExceeded", 0, 0))
               /\ UNCHANGED const_segments_max_size
          ELSE /\ const_segments_max_size' = left
               /\ pc' = "consts"
               /\ UNCHANGED result
    /\ UNCHANGED <<inputs, libfunc_declarations, consts_info, asm_header, asm_footer,
                   assembled, cbs_input, cbs_result, statement_id, program_offset,
                   instructions, relocations, annotations, calls>>

\* statement_offsets: the code offsets of the debug entries.
StatementOffsets(info) == [k \in 1..Len(info) |-> info[k].code_offset]

\* relocations::relocate_instructions: every entry patches the immediate of its
\* instruction with the target's offset.
RelocationTarget(relocation, statement_offsets, info) ==
    LET end == statement_offsets[Len(statement_offsets)]
        has == \E k \in 1..Len(info.segments) : info.segments[k].id = relocation.idx
        segment == info.segments[SegmentPos(info.segments, relocation.idx)]
    IN CASE relocation.kind = "RelativeStatementId" ->
              IF relocation.idx + 1 > Len(statement_offsets) THEN -1
              ELSE statement_offsets[relocation.idx + 1]
         [] relocation.kind = "SegmentStart" ->
              IF ~has THEN -1 ELSE end + segment.segment_offset + 1
         [] relocation.kind = "ConstStart" ->
              IF ~has THEN -1
              ELSE IF relocation.ty \notin DOMAIN segment.const_offset THEN -1
              ELSE end + segment.segment_offset + 1 + segment.const_offset[relocation.ty]

RECURSIVE RelocateInstructions(_, _, _, _)
RelocateInstructions(entries, statement_offsets, info, instrs) ==
    IF entries = <<>> THEN [ok |-> TRUE, instructions |-> instrs]
    ELSE
      LET entry == Head(entries)
          target == RelocationTarget(entry.relocation, statement_offsets, info)
      IN IF target < 0 \/ entry.instruction_idx + 1 > Len(instrs)
         THEN [ok |-> FALSE, instructions |-> instrs]
         ELSE RelocateInstructions(
                Tail(entries), statement_offsets, info,
                [instrs EXCEPT ![entry.instruction_idx + 1].imm = target])

\* The libfunc declarations a program may carry: AsBox declarations of good and
\* bad const types, and a libfunc that is no AsBox.
Range(s) == {s[k] : k \in 1..Len(s)}
SeqsUpTo(S, n) == UNION {[1..m -> S] : m \in 0..n}
NoRepeat(s) == \A j, k \in 1..Len(s) : j # k => s[j] # s[k]

DeclIds ==
    {AsBoxId(ty, seg) : ty \in {"C7", "CPair", "felt252"}, seg \in {0, 1}}
      \cup {LibfuncId("drop")}
DeclLists == {d \in SeqsUpTo(DeclIds, MaxDecls) : NoRepeat(d)}

\* Every AsBox libfunc a statement invokes is declared.
UsedDeclared(stmts, decls) ==
    \A k \in 1..Len(stmts) :
        IsAsBox(stmts[k].libfunc_id) => stmts[k].libfunc_id \in Range(decls)

\* ConstsInfo::new over the program's libfunc declarations.
BuildConsts ==
    /\ pc = "consts"
    /\ \E decls \in DeclLists :
         /\ UsedDeclared(statements, decls)
         /\ libfunc_declarations' = decls
         /\ LET built == ConstsInfoNew(decls, const_segments_max_size)
            IN IF built.tag = "Ok"
               THEN /\ consts_info' = built.info
                    /\ pc' = "relocate"
                    /\ UNCHANGED result
               ELSE /\ Fail([tag |-> built.tag, kind |-> built.kind, a |-> 0, b |-> 0])
                    /\ UNCHANGED consts_info
    /\ calls' = Append(calls, Call("ConstsInfo::new", 0, 0))
    /\ UNCHANGED <<inputs, const_segments_max_size, asm_header, asm_footer, assembled,
                   cbs_input, cbs_result, statement_id, program_offset, instructions,
                   relocations, sierra_statement_info, annotations>>

\* relocate_instructions, and the Ok(CairoProgram) that ends compile.
Relocate ==
    /\ pc = "relocate"
    /\ LET done == RelocateInstructions(relocations,
                                        StatementOffsets(sierra_statement_info),
                                        consts_info, instructions)
       IN /\ instructions' = done.instructions
          /\ result' = IF done.ok THEN Ok ELSE Panic("relocation")
    /\ pc' = "done"
    /\ calls' = Append(calls, Call("relocate_instructions", 0, 0))
    /\ UNCHANGED <<inputs, later, statement_id, program_offset, relocations,
                   sierra_statement_info, annotations>>

\* --------------------------------------------------------- assemble_ex
\* The instruction loop with the hint recorded after the instruction's words.
RECURSIVE AssembleInstructions_HintAfter(_, _, _)
AssembleInstructions_HintAfter(list, bytecode, hints) ==
    IF list = <<>> THEN [bytecode |-> bytecode, hints |-> hints]
    ELSE
      LET instruction == Head(list)
          extended == bytecode \o Encode(instruction)
      IN AssembleInstructions_HintAfter(
           Tail(list),
           extended,
           IF instruction.hints # <<>>
           THEN Append(hints, [offset |-> Len(extended), hints |-> instruction.hints])
           ELSE hints)

\* The loop over chain!(header, &self.instructions).
RECURSIVE AssembleInstructions(_, _, _)
AssembleInstructions(list, bytecode, hints) ==
    IF list = <<>> THEN [bytecode |-> bytecode, hints |-> hints]
    ELSE
      LET instruction == Head(list)
      IN AssembleInstructions(
           Tail(list),
           bytecode \o Encode(instruction),
           IF instruction.hints # <<>>
           THEN Append(hints, [offset |-> Len(bytecode), hints |-> instruction.hints])
           ELSE hints)

\* The loop over self.consts_info.segments.values().
RECURSIVE AssembleSegments(_, _, _)
AssembleSegments(segments, ret_bytecode, bytecode) ==
    IF segments = <<>> THEN bytecode
    ELSE AssembleSegments(Tail(segments), ret_bytecode,
                          (bytecode \o <<ret_bytecode>>) \o Head(segments).values)

\* The loop over footer; the assert on a footer instruction's hints panics.
RECURSIVE AssembleFooter(_, _)
AssembleFooter(footer, bytecode) ==
    IF footer = <<>> THEN [ok |-> TRUE, bytecode |-> bytecode]
    ELSE IF Head(footer).hints # <<>> THEN [ok |-> FALSE, bytecode |-> bytecode]
    ELSE AssembleFooter(Tail(footer), bytecode \o Encode(Head(footer)))

NotAssembled == [tag |-> "None", bytecode |-> <<>>, hints |-> <<>>]

assemble_ex(instrs, info, header, footer) ==
    LET body == AssembleInstructions(header \o instrs, <<>>, <<>>)
        ret == Encode(RetInstr)
    IN IF Len(ret) # 1 THEN [tag |-> "Panic", bytecode |-> <<>>, hints |-> <<>>]
       ELSE
         LET with_consts == AssembleSegments(info.segments, ret[1], body.bytecode)
             with_footer == AssembleFooter(footer, with_consts)
         IN IF ~with_footer.ok THEN [tag |-> "Panic", bytecode |-> <<>>, hints |-> <<>>]
            ELSE [tag |-> "Ok", bytecode |-> with_footer.bytecode, hints |-> body.hints]

\* The header and footer instructions a caller may pass.
WrapperLists ==
    {<<>>, <<Instr("nop", 0, <<>>)>>, <<Instr("ap_add", 2, <<"h">>)>>,
     <<Instr("call", 3, <<>>), Instr("ret", 0, <<>>)>>}

\* CairoProgram::assemble_ex on the compiled program.
Assemble ==
    /\ pc = "done"
    /\ result.tag = "Ok"
    /\ \E header \in WrapperLists, footer \in WrapperLists :
         /\ asm_header' = header
         /\ asm_footer' = footer
         /\ assembled' = assemble_ex(instructions, consts_info, header, footer)
    /\ pc' = "assembled"
    /\ UNCHANGED <<inputs, libfunc_declarations, const_segments_max_size, consts_info,
                   cbs_input, cbs_result, statement_id, program_offset, instructions,
                   relocations, sierra_statement_info, annotations, calls, result>>

\* ------------------------------------------------------------ programs
\* The statements a program of n statements is made of.
StatementPool(n) ==
    {Return(<<>>), Return(<<0>>), Return(<<0, 1>>),
     Invocation(LibfuncId("array_new"), <<>>, <<BranchInfo(Fallthrough, <<0>>)>>),
     Invocation(LibfuncId("drop"), <<0>>, <<BranchInfo(Fallthrough, <<>>)>>),
     Invocation(LibfuncId("drop"), <<>>, <<BranchInfo(Fallthrough, <<>>)>>),
     Invocation(LibfuncId("dup"), <<0>>, <<BranchInfo(Fallthrough, <<0, 1>>)>>),
     Invocation(LibfuncId("branch_align"), <<>>, <<BranchInfo(Fallthrough, <<>>)>>),
     Invocation(AsBoxId("C7", 0), <<>>, <<BranchInfo(Fallthrough, <<0>>)>>)}
      \cup {Invocation(LibfuncId("test_zero"), <<0>>,
                       <<BranchInfo(Fallthrough, <<>>),
                         BranchInfo(StatementTarget(t), <<>>)>>) : t \in 0..n}
      \cup {Invocation(LibfuncId("jump"), <<>>,
                       <<BranchInfo(StatementTarget(t), <<>>)>>) : t \in 0..n}

Programs == UNION {[1..n -> StatementPool(n)] : n \in 0..MaxStmts}

\* program.funcs: one function, entered at statement 0, with one parameter.
FuncParams == <<0>>

\* ---------------------------------------------------------------- Spec
NoInput == [statement_idx |-> 0, invocation |-> Return(<<>>),
            libfunc |-> Signature(0, <<>>, -1, <<>>)]

Init ==
    /\ statements \in Programs
    /\ max_bytecode_size \in 0..MaxBytecodeSize
    /\ libfunc_declarations = <<>>
    /\ pc = "loop"
    /\ statement_id = 0
    /\ program_offset = 0
    /\ instructions = <<>>
    /\ relocations = <<>>
    /\ sierra_statement_info = <<>>
    /\ annotations = CreateAnnotations(Len(statements), FuncParams)
    /\ const_segments_max_size = 0
    /\ consts_info = DefaultConstsInfo
    /\ calls = <<>>
    /\ result = Running
    /\ asm_header = <<>>
    /\ asm_footer = <<>>
    /\ assembled = NotAssembled
    /\ cbs_input = NoInput
    /\ cbs_result = Running

Next ==
    \/ StmtSizeLimit
    \/ StmtReturn
    \/ StmtInvocation
    \/ EndOfPass
    \/ BuildConsts
    \/ Relocate
    \/ Assemble

Spec == Init /\ [][Next]_vars

\* ------------------------------------------- ConstsInfo::new, called directly
ConstIds ==
    {AsBoxId(ty, seg) : ty \in {"C7", "CPair", "CNone", "CBadEnum", "felt252"},
                        seg \in {0, 1, 2}}
      \cup {AsBoxId(ty, 0) : ty \in {"C11", "CUnit", "CSome", "CBadPrim",
                                     "CBadStruct", "CNested"}}
      \cup {LibfuncId("drop")}
ConstIdLists == {d \in SeqsUpTo(ConstIds, MaxIds) : NoRepeat(d)}

InitConsts ==
    /\ statements = <<>>
    /\ max_bytecode_size = 0
    /\ libfunc_declarations = <<>>
    /\ pc = "new"
    /\ statement_id = 0
    /\ program_offset = 0
    /\ instructions = <<>>
    /\ relocations = <<>>
    /\ sierra_statement_info = <<>>
    /\ annotations = <<>>
    /\ const_segments_max_size \in 0..MaxBytecodeSize
    /\ consts_info = DefaultConstsInfo
    /\ calls = <<>>
    /\ result = Running
    /\ asm_header = <<>>
    /\ asm_footer = <<>>
    /\ assembled = NotAssembled
    /\ cbs_input = NoInput
    /\ cbs_result = Running

NewConsts ==
    /\ pc = "new"
    /\ \E ids \in ConstIdLists :
         /\ libfunc_declarations' = ids
         /\ LET built == ConstsInfoNew(ids, const_segments_max_size)
            IN /\ consts_info' = built.info
               /\ result' = [tag |-> built.tag, kind |-> built.kind, a |-> 0, b |-> 0]
    /\ pc' = "returned"
    /\ UNCHANGED <<inputs, const_segments_max_size, asm_header, asm_footer, assembled,
                   cbs_input, cbs_result, statement_id, program_offset, instructions,
                   relocations, sierra_statement_info, annotations, calls>>

SpecConsts == InitConsts /\ [][NewConsts]_vars

\* ------------------------------------- check_basic_structure, called directly
ArgLists == SeqsUpTo({0}, MaxArgs)
BranchLists ==
    SeqsUpTo({BranchInfo(target, results) :
                 target \in {Fallthrough, StatementTarget(0)},
                 results \in {<<>>, <<0>>}},
             MaxBranches)
\* A libfunc's signature: its fallthrough, if any, is one of its branches.
Signatures ==
    {Signature(params, outputs, fallthrough, [k \in 1..Len(outputs) |-> "Known"]) :
        params \in 0..MaxArgs, outputs \in SeqsUpTo({0, 1}, MaxBranches),
        fallthrough \in -1..(MaxBranches - 1)}

InitStructure ==
    /\ statements = <<>>
    /\ max_bytecode_size = 0
    /\ libfunc_declarations = <<>>
    /\ pc = "check"
    /\ statement_id = 0
    /\ program_offset = 0
    /\ instructions = <<>>
    /\ relocations = <<>>
    /\ sierra_statement_info = <<>>
    /\ annotations = <<>>
    /\ const_segments_max_size = 0
    /\ consts_info = DefaultConstsInfo
    /\ calls = <<>>
    /\ result = Running
    /\ asm_header = <<>>
    /\ asm_footer = <<>>
    /\ assembled = NotAssembled
    /\ cbs_input \in
         {[statement_idx |-> idx,
           invocation |-> Invocation(LibfuncId("drop"), args, branches),
           libfunc |-> sig] :
             idx \in 0..1, args \in ArgLists, branches \in BranchLists,
             sig \in {g \in Signatures : g.fallthrough < Len(g.outputs)}}
    /\ cbs_result = Running

CheckBasicStructure ==
    /\ pc = "check"
    /\ cbs_result' = check_basic_structure(cbs_input.statement_idx,
                                           cbs_input.invocation, cbs_input.libfunc)
    /\ pc' = "returned"
    /\ UNCHANGED <<inputs, libfunc_declarations, const_segments_max_size, consts_info,
                   asm_header, asm_footer, assembled, cbs_input, statement_id,
                   program_offset, instructions, relocations, sierra_statement_info,
                   annotations, calls, result>>

SpecStructure == InitStructure /\ [][CheckBasicStructure]_vars

\* --------------------------------------------- assemble_ex, called directly
InstrPool ==
    {RetInstr, Instr("ap_add", 1, <<"alloc_segment">>), Instr("jmp", 3, <<>>),
     Instr("nop", 0, <<"h">>)}
ValueLists == {<<>>, <<7>>, <<100, 11>>}
\* ConstsInfo values as ConstsInfo::new lays them out.
ConstsInfos ==
    {LayoutSegments([k \in 1..Len(vs) |->
                        [DefaultSegment(k - 1) EXCEPT !.values = vs[k]]], Len(vs)) :
        vs \in SeqsUpTo(ValueLists, MaxSegments)}

InitAssemble ==
    /\ statements = <<>>
    /\ max_bytecode_size = 0
    /\ libfunc_declarations = <<>>
    /\ pc = "done"
    /\ statement_id = 0
    /\ program_offset = 0
    /\ instructions \in SeqsUpTo(InstrPool, MaxInstrs)
    /\ relocations = <<>>
    /\ sierra_statement_info = <<>>
    /\ annotations = <<>>
    /\ const_segments_max_size = 0
    /\ consts_info \in ConstsInfos
    /\ calls = <<>>
    /\ result = Ok
    /\ asm_header = <<>>
    /\ asm_footer = <<>>
    /\ assembled = NotAssembled
    /\ cbs_input = NoInput
    /\ cbs_result = Running

SpecAssemble == InitAssemble /\ [][Assemble]_vars

\* ================================================================ claims
Succeeded == result.tag = "Ok"
NumStatements == Len(statements)

\* The instructions statement k (1-based) emits, and the offset its code starts at.
StatementCode(k) ==
    IF statements[k].kind = "Return" THEN <<RetInstr>>
    ELSE CompileInvocation(statements[k], k - 1).instructions
RECURSIVE StartOffset(_)
StartOffset(k) ==
    IF k <= 1 THEN 0 ELSE StartOffset(k - 1) + SumOpSize(StatementCode(k - 1))

\* C1: after a successful compile of N statements the debug vector has N+1
\* entries; entry k < N was recorded for statement k (its kind, its references,
\* and a code offset that is the size of the instructions before its
\* instruction index); entry N is the EndMarker, whose code_offset is the summed
\* op_size of all instructions and whose instruction_idx is their number.
C1_DebugInfoShape ==
    Succeeded =>
      LET info == sierra_statement_info
          N == NumStatements
      IN /\ Len(info) = N + 1
         /\ \A k \in 1..N :
              /\ info[k].kind =
                   (IF statements[k].kind = "Return" THEN "Return" ELSE "Invoke")
              /\ info[k].ref_values = statements[k].args
              /\ info[k].instruction_idx <= Len(instructions)
              /\ info[k].code_offset =
                   SumOpSize(SubSeq(instructions, 1, info[k].instruction_idx))
         /\ info[N + 1].kind = "EndMarker"
         /\ info[N + 1].code_offset = SumOpSize(instructions)
         /\ info[N + 1].instruction_idx = Len(instructions)

C1_Witness ==
    /\ Succeeded
    /\ NumStatements = 3
    /\ Len(instructions) >= 3
    /\ sierra_statement_info[2].kind = "Invoke"

\* C2: after a successful compile the code_offset of debug entry k < N is the
\* offset at which statement k's code starts: the summed size of the
\* instructions emitted for statements 0..k-1.
C2_CodeOffsetIsStart ==
    Succeeded =>
      \A k \in 1..NumStatements :
          sierra_statement_info[k].code_offset = StartOffset(k)

\* Words of the const segments: every value, and one terminator per segment.
RECURSIVE SegmentWords(_)
SegmentWords(segments) ==
    IF segments = <<>> THEN 0
    ELSE 1 + Len(Head(segments).values) + SegmentWords(Tail(segments))

\* C3: whenever compile succeeds, the output size in words (code, const values,
\* one terminator per const segment) is at most max_bytecode_size; it is
\* program_offset + total_segments_size, and the length of the bytecode
\* assembled without header and footer.
C3_OutputWithinBudget ==
    Succeeded =>
      /\ SumOpSize(instructions) + SegmentWords(consts_info.segments)
           <= max_bytecode_size
      /\ program_offset + consts_info.total_segments_size
           = SumOpSize(instructions) + SegmentWords(consts_info.segments)
      /\ (pc = "assembled" /\ asm_header = <<>> /\ asm_footer = <<>>)
           => Len(assembled.bytecode) <= max_bytecode_size

C3_Witness ==
    /\ Succeeded
    /\ Len(consts_info.segments) = 2
    /\ Len(consts_info.segments[1].values) > 0
    /\ program_offset > 1
    /\ program_offset + consts_info.total_segments_size = max_bytecode_size

\* C4: when the literal extraction for an AsBox libfunc's const type fails, the
\* const-segment builder (and compile) returns that CompilationError.
C4_ExtractionErrorReturned ==
    ( /\ pc \in {"done", "returned"}
      /\ libfunc_declarations # <<>>
      /\ IsAsBox(libfunc_declarations[1])
      /\ extract_const_value(libfunc_declarations[1].ty).tag = "Err" )
    => result = Err(extract_const_value(libfunc_declarations[1].ty).kind, 0, 0)

\* The AsBox ids among the scanned ids, the segment ids in the order they are first
\* introduced, and the words the scan has counted after a list of AsBox ids.
AsBoxIds(ids) == SelectSeq(ids, IsAsBox)
RECURSIVE FirstIntroduced(_)
FirstIntroduced(boxes) ==
    IF boxes = <<>> THEN <<>>
    ELSE LET before == FirstIntroduced(SubSeq(boxes, 1, Len(boxes) - 1))
             seg == boxes[Len(boxes)].seg
         IN IF seg \in Range(before) THEN before ELSE Append(before, seg)
RECURSIVE ValuesOf(_, _)
ValuesOf(boxes, seg) ==
    IF boxes = <<>> THEN <<>>
    ELSE (IF Head(boxes).seg = seg THEN extract_const_value(Head(boxes).ty).values
          ELSE <<>>) \o ValuesOf(Tail(boxes), seg)
RECURSIVE DataWords(_)
DataWords(boxes) ==
    IF boxes = <<>> THEN 0
    ELSE Len(extract_const_value(Head(boxes).ty).values) + DataWords(Tail(boxes))
InOrder(keys) == keys = [k \in 1..Len(keys) |-> k - 1]
\* The scan reaches the ordering check: every extraction succeeds and the budget
\* holds after every AsBox id.
ScanCompletes(boxes, budget) ==
    /\ \A k \in 1..Len(boxes) : extract_const_value(boxes[k].ty).tag = "Ok"
    /\ \A k \in 1..Len(boxes) :
         DataWords(SubSeq(boxes, 1, k)) + Len(FirstIntroduced(SubSeq(boxes, 1, k)))
           <= budget

\* C5: ConstsInfo::new succeeds only if the segment ids, in the order the scanned
\* libfuncs first introduce them, are 0, 1, ..., n-1; a scan that reaches the
\* ordering check with any other order returns ConstSegmentsOutOfOrder; on
\* success segment k holds the values of its libfuncs, its segment_offset is the
\* summed (1 + number of values) of the segments before it and
\* total_segments_size is that sum over all segments.
C5_SegmentsInOrderAndLaidOut ==
    pc = "returned" =>
      LET boxes == AsBoxIds(libfunc_declarations)
          keys == FirstIntroduced(boxes)
          segments == consts_info.segments
      IN /\ result.tag = "Ok" => InOrder(keys)
         /\ ScanCompletes(boxes, const_segments_max_size) =>
              result = (IF InOrder(keys) THEN Ok
                        ELSE Err("ConstSegmentsOutOfOrder", 0, 0))
         /\ result.tag = "Ok" =>
              /\ SegmentKeys(segments) = keys
              /\ \A k \in 1..Len(segments) :
                   /\ segments[k].values = ValuesOf(boxes, k - 1)
                   /\ segments[k].segment_offset =
                        SegmentWords(SubSeq(segments, 1, k - 1))
              /\ consts_info.total_segments_size = SegmentWords(segments)

C5_Witness ==
    /\ pc = "returned"
    /\ result.tag = "Ok"
    /\ Len(libfunc_declarations) = 3
    /\ Len(consts_info.segments) = 2
    /\ consts_info.segments[1].values = <<7, 11>>
    /\ consts_info.segments[2].segment_offset = 3
    /\ consts_info.total_segments_size = 5

\* Statement k (1-based) is an invocation with more than one result branch; the
\* destination of its branch b; a destination that is a branch-align statement.
Branching(k) == statements[k].kind = "Invocation" /\ Len(statements[k].branches) > 1
Dst(k, b) == NextIdx(k - 1, statements[k].branches[b].target)
AlignAt(dst) == dst < NumStatements /\ is_branch_align(statements[dst + 1])
FirstNotAligned(k) ==
    CHOOSE b \in 1..Len(statements[k].branches) :
        /\ ~AlignAt(Dst(k, b))
        /\ \A c \in 1..(b - 1) : AlignAt(Dst(k, c))

\* C6: a branching invocation i whose branch leads to a statement dst that is not
\* branch-align makes compile fail with ExpectedBranchAlign{i, dst} when that
\* branch is reached (the first such branch, unless an earlier branch of i
\* already failed), the environment of a branching invocation is propagated only
\* to branch-align statements, and compile never succeeds on a program in which
\* a branching invocation has a successor that is not branch-align.
C6_BranchAlignEnforced ==
    /\ Succeeded =>
         \A k \in 1..NumStatements :
             Branching(k) =>
               \A b \in 1..Len(statements[k].branches) : AlignAt(Dst(k, b))
    /\ \A c \in 1..Len(calls) :
         (calls[c].fn = "propagate_annotations" /\ Branching(calls[c].a + 1))
           => AlignAt(calls[c].b)
    /\ result.kind = "ExpectedBranchAlign" =>
         /\ Branching(result.a + 1)
         /\ \E b \in 1..Len(statements[result.a + 1].branches) :
              Dst(result.a + 1, b) = result.b
         /\ result.b < NumStatements
         /\ ~is_branch_align(statements[result.b + 1])
    /\ pc = "done" =>
         \A k \in 1..NumStatements :
             ( /\ Len(sierra_statement_info) >= k
               /\ Branching(k)
               /\ \E b \in 1..Len(statements[k].branches) : ~AlignAt(Dst(k, b)) )
             => LET b == FirstNotAligned(k)
                    expected == Err("ExpectedBranchAlign", k - 1, Dst(k, b))
                IN IF Dst(k, b) >= NumStatements
                   THEN result \in {Panic("index out of bounds"),
                                    Err("AnnotationError", k - 1, 0)}
                   ELSE IF b = 1 THEN result = expected
                   ELSE result \in {expected, Err("AnnotationError", k - 1, 0)}

C6_Witness ==
    /\ pc = "done"
    /\ result.kind = "ExpectedBranchAlign"
    /\ result.b # result.a + 1
    /\ \E c \in 1..Len(calls) :
         calls[c] = Call("propagate_annotations", result.a, result.a + 1)

\* What take_args leaves of the environment of the Return statement the loop is at.
AtReturn ==
    /\ pc = "loop"
    /\ statement_id < NumStatements
    /\ ~(program_offset > max_bytecode_size)
    /\ statements[statement_id + 1].kind = "Return"
Remaining ==
    GetAnnotationsAfterTakeArgs(annotations, statement_id,
                                statements[statement_id + 1].args)

\* C7: at a Return statement where a variable remains after the return variables
\* are taken, compile fails with DanglingReferences naming the statement and a
\* remaining variable, without calling validate_final or the on-stack check and
\* without emitting the return instruction; hence after a successful compile the
\* environment at each Return holds exactly the return variables.
C7_DanglingFailsFirst ==
    /\ [][ (AtReturn /\ Remaining.ok /\ Remaining.refs # {})
           => /\ pc' = "done"
              /\ result'.tag = "Err"
              /\ result'.kind = "DanglingReferences"
              /\ result'.a = statement_id
              /\ result'.b \in Remaining.refs
              /\ calls' = calls
              /\ instructions' = instructions
              /\ program_offset' = program_offset
              /\ sierra_statement_info' = sierra_statement_info ]_vars
    /\ [](Succeeded =>
            \A k \in 1..NumStatements :
                statements[k].kind = "Return" =>
                  /\ annotations[k].set
                  /\ annotations[k].refs = SeqToSet(statements[k].args))

C7_Witness ==
    /\ pc = "done"
    /\ result.kind = "DanglingReferences"
    /\ result.a = 2
    /\ result.b = 1
    /\ Len(instructions) = 1

HasCall(fn) == \E c \in 1..Len(calls) : calls[c].fn = fn

\* C8: when the code offset exceeds max_bytecode_size at the start of a statement
\* or at the end of the pass, compile returns CodeSizeLimitExceeded and neither
\* the const-segment builder nor the relocator is run; an offset equal to
\* max_bytecode_size is not rejected by this check.
C8_CodeSizeLimit ==
    /\ [][ (pc = "loop" /\ program_offset > max_bytecode_size)
           => /\ pc' = "done"
              /\ result' = Err("CodeSizeLimitExceeded", 0, 0)
              /\ instructions' = instructions
              /\ consts_info' = consts_info ]_vars
    /\ [](program_offset > max_bytecode_size =>
            /\ ~HasCall("ConstsInfo::new")
            /\ ~HasCall("relocate_instructions")
            /\ pc \in {"loop", "done"}
            /\ ~Succeeded)
    /\ [][ (pc = "loop" /\ program_offset <= max_bytecode_size)
           => /\ result'.kind # "CodeSizeLimitExceeded"
              /\ (statement_id = NumStatements =>
                    /\ pc' = "consts"
                    /\ const_segments_max_size' =
                         max_bytecode_size - program_offset) ]_vars

C8_Witness ==
    /\ pc = "done"
    /\ result = Err("CodeSizeLimitExceeded", 0, 0)
    /\ program_offset > max_bytecode_size
    /\ statement_id < NumStatements
    /\ statement_id > 0

\* The three conditions of a well-formed invocation of a libfunc.
StructureHolds(invocation, libfunc) ==
    /\ Len(invocation.args) = libfunc.params
    /\ Len(invocation.branches) = Len(libfunc.outputs)
    /\ \A k \in 1..Len(invocation.branches) :
         Len(invocation.branches[k].results) = libfunc.outputs[k]
    /\ libfunc.fallthrough >= 0 =>
         /\ libfunc.fallthrough < Len(invocation.branches)
         /\ invocation.branches[libfunc.fallthrough + 1].target.kind = "Fallthrough"

\* C9: check_basic_structure returns LibfuncInvocationMismatch{statement_idx}
\* exactly when the argument count differs from the parameter count, or the
\* per-branch result counts differ from the per-branch output counts, or the
\* branch at the libfunc's fallthrough index does not target Fallthrough;
\* otherwise Ok; it never indexes the branches out of range.
C9_BasicStructure ==
    pc = "returned" =>
      cbs_result =
        (IF StructureHolds(cbs_input.invocation, cbs_input.libfunc) THEN Ok
         ELSE Err("LibfuncInvocationMismatch", cbs_input.statement_idx, 0))

C9_Witness ==
    /\ pc = "returned"
    /\ cbs_result = Err("LibfuncInvocationMismatch", 1, 0)
    /\ Len(cbs_input.invocation.args) = cbs_input.libfunc.params
    /\ ResultCounts(cbs_input.invocation.branches) = cbs_input.libfunc.outputs
    /\ cbs_input.libfunc.fallthrough = 1

RECURSIVE EncodeAll(_)
EncodeAll(list) ==
    IF list = <<>> THEN <<>>
    ELSE EncodeAll(SubSeq(list, 1, Len(list) - 1)) \o Encode(list[Len(list)])
RECURSIVE SegmentBlocks(_)
SegmentBlocks(segments) ==
    IF segments = <<>> THEN <<>>
    ELSE SegmentBlocks(SubSeq(segments, 1, Len(segments) - 1))
           \o <<OpWord("ret")>> \o segments[Len(segments)].values
\* The pairs of the first k instructions of a list: one per instruction with
\* hints, at the number of words emitted before it.
RECURSIVE HintPairs(_, _)
HintPairs(list, k) ==
    IF k = 0 THEN <<>>
    ELSE HintPairs(list, k - 1)
           \o (IF list[k].hints = <<>> THEN <<>>
               ELSE <<[offset |-> SumOpSize(SubSeq(list, 1, k - 1)),
                       hints |-> list[k].hints]>>)

\* C10: assemble_ex returns the encoded header, the encoded body, per const
\* segment in stored order one ret word and the segment's values, and the
\* encoded footer, concatenated in this order; its hints are one pair per
\* header or body instruction with hints, in instruction order, at the number of
\* words emitted before that instruction; a footer instruction with hints
\* makes it panic.
C10_AssembledLayout ==
    pc = "assembled" =>
      IF \E k \in 1..Len(asm_footer) : asm_footer[k].hints # <<>>
      THEN assembled.tag = "Panic"
      ELSE /\ assembled.tag = "Ok"
           /\ assembled.bytecode =
                EncodeAll(asm_header) \o EncodeAll(instructions)
                  \o SegmentBlocks(consts_info.segments) \o EncodeAll(asm_footer)
           /\ assembled.hints =
                HintPairs(asm_header \o instructions, Len(asm_header) + Len(instructions))

C10_Witness ==
    /\ pc = "assembled"
    /\ assembled.tag = "Ok"
    /\ asm_header # <<>>
    /\ asm_header[1].hints # <<>>
    /\ asm_footer # <<>>
    /\ Len(instructions) = 2
    /\ Len(consts_info.segments) = 2
    /\ Len(assembled.hints) = 2
    /\ assembled.hints[2].offset = 4

\* The statements whose code has been emitted, the number of instructions
\* emitted before statement k (1-based), and what its emitter returned.
Emitted ==
    Cardinality({k \in 1..Len(sierra_statement_info) :
                    sierra_statement_info[k].kind # "EndMarker"})
RECURSIVE InstructionsBefore(_)
InstructionsBefore(k) ==
    IF k <= 1 THEN 0 ELSE InstructionsBefore(k - 1) + Len(StatementCode(k - 1))
EmitterRelocations(k) ==
    IF statements[k].kind = "Return" THEN <<>>
    ELSE CompileInvocation(statements[k], k - 1).relocations
RECURSIVE ExpectedRelocations(_)
ExpectedRelocations(n) ==
    IF n = 0 THEN <<>>
    ELSE ExpectedRelocations(n - 1) \o
           [j \in 1..Len(EmitterRelocations(n)) |->
               [instruction_idx |->
                    InstructionsBefore(n) + EmitterRelocations(n)[j].instruction_idx,
                relocation |-> EmitterRelocations(n)[j].relocation]]

\* C11: the relocation list holds, statement after statement in emission
\* order, each entry an emitter returned with local index j, recorded with
\* instruction_idx = (instructions emitted before the statement) + j; that
\* index designates in the global list the instruction the emitter's entry
\* designated in its own list, and every recorded index is less than the number
\* of instructions.
C11_RelocationsRebased ==
    /\ relocations = ExpectedRelocations(Emitted)
    /\ \A n \in 1..Emitted : \A j \in 1..Len(EmitterRelocations(n)) :
         LET local == EmitterRelocations(n)[j].instruction_idx
             global == InstructionsBefore(n) + local
         IN /\ global < Len(instructions)
            /\ instructions[global + 1].op = StatementCode(n)[local + 1].op
    /\ \A k \in 1..Len(relocations) :
         relocations[k].instruction_idx < Len(instructions)

C11_Witness ==
    \E k \in 1..Len(relocations) :
        /\ relocations[k].relocation.kind = "ConstStart"
        /\ relocations[k].instruction_idx >= 2
        /\ instructions[relocations[k].instruction_idx + 1].op = "add_imm"

\* The code offset of the end marker, and the words of a bytecode from the
\* 0-based index at on.
EndOffset == sierra_statement_info[Len(sierra_statement_info)].code_offset
WordsAt(bytecode, at, words) ==
    /\ at + Len(words) <= Len(bytecode)
    /\ \A c \in 1..Len(words) : bytecode[at + c] = words[c]
SegmentOf(segment_id) ==
    consts_info.segments[SegmentPos(consts_info.segments, segment_id)]

\* C12: in the program assembled with empty header and footer from a
\* successful compile, every const segment s has its ret word at index
\* (end-marker code_offset + s.segment_offset) and its values right after it;
\* the data of a const type T of s starts const_offset[T] words further; and
\* the address patched into an instruction relocated to a segment or to a const
\* is the index of the first word of that data.
C12_ConstAddresses ==
    (pc = "assembled" /\ assembled.tag = "Ok" /\ asm_header = <<>> /\ asm_footer = <<>>) =>
      /\ \A k \in 1..Len(consts_info.segments) :
           LET s == consts_info.segments[k]
               at == EndOffset + s.segment_offset
           IN /\ WordsAt(assembled.bytecode, at, <<OpWord("ret")>> \o s.values)
              /\ \A ty \in DOMAIN s.const_offset :
                   WordsAt(assembled.bytecode, at + 1 + s.const_offset[ty],
                           extract_const_value(ty).values)
      /\ \A k \in 1..Len(relocations) :
           LET entry == relocations[k]
               address == instructions[entry.instruction_idx + 1].imm
           IN /\ entry.relocation.kind = "SegmentStart" =>
                   /\ address = EndOffset + SegmentOf(entry.relocation.idx).segment_offset + 1
                   /\ WordsAt(assembled.bytecode, address,
                              SegmentOf(entry.relocation.idx).values)
              /\ entry.relocation.kind = "ConstStart" =>
                   WordsAt(assembled.bytecode, address,
                           extract_const_value(entry.relocation.ty).values)

C12_Witness ==
    /\ pc = "assembled"
    /\ assembled.tag = "Ok"
    /\ asm_header = <<>>
    /\ asm_footer = <<>>
    /\ EndOffset >= 1
    /\ Len(consts_info.segments) = 2
    /\ consts_info.segments[1].values # <<>>
    /\ consts_info.segments[2].values # <<>>
    /\ consts_info.segments[2].segment_offset = 1 + Len(consts_info.segments[1].values)

\* C13: a branching invocation with a branch destination of N or more (such as
\* a fallthrough branch on the last statement) makes compile return a
\* CompilationError; the statement list is never indexed out of range.
C13_DestinationInRange ==
    /\ result # Panic("index out of bounds")
    /\ (/\ pc = "done"
        /\ statement_id < NumStatements
        /\ Branching(statement_id + 1)
        /\ \E b \in 1..Len(statements[statement_id + 1].branches) :
             Dst(statement_id + 1, b) >= NumStatements)
       => result.tag = "Err"

====
